---- MODULE Spec2Model ----
(***************************************************************************)
(* State-machine model of static/js/main.js: the dashboard's feed client,  *)
(* question client, ticker renderer and feed renderer.                     *)
(*                                                                         *)
(* JavaScript values are tagged records (t is the typeof tag).  Markup and *)
(* text are strings built by concatenation, as the template literals do.   *)
(* Numbers of a stock quote are integers counting eighths (1/8 is exact in *)
(* binary floating point, so toFixed's rounding is determined).            *)
(***************************************************************************)
EXTENDS Integers, Sequences, FiniteSets, TLC

\* ---------------------------------------------------------------- bounds
\* handleAskQuestion invocations in one behaviour
MaxAskCalls == 3
\* fetchMainFeed invocations made by the harness of FeedSpec
MaxFeedCalls == 2
\* entries of a stock mapping in TickerSpec
MaxStocks == 2

\* items of a news list in RenderSpec
MaxNews == 2
\* renderAll calls made by the harness of RenderSpec
MaxRenders == 2

\* ------------------------------------------------------ JavaScript values
Undefined == [t |-> "undefined"]
Str(s) == [t |-> "string", v |-> s]
Num(n) == [t |-> "number", v |-> n]
Arr(s) == [t |-> "array", v |-> s]
Obj(o) == [t |-> "object", v |-> o]

\* ToBoolean: undefined, "" and 0 are falsy; objects and arrays are truthy
Truthy(x) ==
    CASE x.t = "undefined" -> FALSE
      [] x.t = "string" -> x.v # ""
      [] x.t = "number" -> x.v # 0
      [] OTHER -> TRUE

\* a || b
Or(a, b) == IF Truthy(a) THEN a ELSE b

Digit(d) == <<"0", "1", "2", "3", "4", "5", "6", "7", "8", "9">>[d + 1]

RECURSIVE IntStr(_)
\* decimal digits of a natural number
IntStr(n) == IF n < 10 THEN Digit(n) ELSE IntStr(n \div 10) \o Digit(n % 10)

\* ToString of a value interpolated into a template literal: `${x}`
TemplateStr(x) ==
    CASE x.t = "undefined" -> "undefined"
      [] x.t = "string" -> x.v
      [] x.t = "number" -> (IF x.v < 0 THEN "-" \o IntStr(-x.v) ELSE IntStr(x.v))

\* a value assigned to textContent (a nullable DOMString: undefined becomes
\* null, which the setter treats as the empty string)
DOMStr(x) == IF x.t = "undefined" THEN "" ELSE TemplateStr(x)

\* Number.prototype.toFixed(2) of x eighths: the sign, then the magnitude
\* rounded to hundredths (a tie picks the larger), two decimals always
toFixed2(x) ==
    LET m == IF x < 0 THEN -x ELSE x
        h == (25 * m + 1) \div 2
    IN  (IF x < 0 THEN "-" ELSE "")
            \o IntStr(h \div 100) \o "." \o Digit((h % 100) \div 10) \o Digit(h % 10)

\* String.prototype.trim on a sequence of one-character strings
IsSpace(c) == c \in {" ", "\t", "\n"}

RECURSIVE TrimLeft(_)
TrimLeft(s) ==
    IF s # <<>> /\ IsSpace(Head(s)) THEN TrimLeft(Tail(s)) ELSE s

RECURSIVE TrimRight(_)
TrimRight(s) ==
    IF s # <<>> /\ IsSpace(s[Len(s)]) THEN TrimRight(SubSeq(s, 1, Len(s) - 1)) ELSE s

\* a faulty variant of trim: the input is taken as typed
trimNothing(s) == s

trim(s) == TrimRight(TrimLeft(s))

\* s without its i-th element
Remove(s, i) == SubSeq(s, 1, i - 1) \o SubSeq(s, i + 1, Len(s))

\* ------------------------------------------------------------ rendering
RECURSIVE join(_)
\* Array.prototype.join('') of an array of strings
join(a) == IF a = <<>> THEN "" ELSE Head(a) \o join(Tail(a))

\* A stock mapping is the sequence of its entries [key, value] in the order
\* Object.keys enumerates them; value is a StockQuote record.
ObjectKeys(o) == [i \in 1..Len(o.v) |-> o.v[i].key]

\* o[key]
Get(o, key) == (CHOOSE e \in {o.v[i] : i \in 1..Len(o.v)} : e.key = key).value

\* a faulty variant of changeClass: zero is not positive
changeClassStrict(stock) == IF stock.change > 0 THEN "positive" ELSE "negative"

\* const changeClass = stock.change >= 0 ? 'positive' : 'negative'
changeClass(stock) == IF stock.change >= 0 THEN "positive" ELSE "negative"

\* const sign = stock.change >= 0 ? '+' : ''
sign(stock) == IF stock.change >= 0 THEN "+" ELSE ""

\* the template literal of one quote, its five holes as parameters
StockBoxMarkup(symbol, price, class, change, percent) ==
    "\n            <div class=\"stock-box\">"
    \o "\n                <span class=\"symbol\">" \o symbol \o "</span>"
    \o "\n                <span class=\"price\">" \o price \o "</span>"
    \o "\n                <span class=\"change " \o class \o "\">"
    \o "\n                    " \o change \o " (" \o percent \o "%)"
    \o "\n                </span>"
    \o "\n            </div>"
    \o "\n        "

\* the callback of stockSymbols.map
StockBox(stock) ==
    StockBoxMarkup(stock.symbol, toFixed2(stock.price), changeClass(stock),
                   sign(stock) \o toFixed2(stock.change),
                   sign(stock) \o toFixed2(stock.percent_change))

StockPlaceholder == "<div class=\"stock-box\">Fetching stock data...</div>"

\* a faulty variant of TickerMarkup: one copy
TickerMarkupOnce(stockHTML) ==
    "<div class=\"stock-ticker-inner\">" \o stockHTML \o "</div>"

\* the fragment that holds stockHTML twice, for the looping animation
TickerMarkup(stockHTML) ==
    "<div class=\"stock-ticker-inner\">" \o stockHTML \o stockHTML \o "</div>"

\* Object.keys(stockData) throws a TypeError on undefined
renderStockBarThrows(sd) == sd.t = "undefined"

\* the innerHTML renderStockBar gives the stock-bar container
renderStockBar(sd) ==
    LET stockSymbols == ObjectKeys(sd)
        stockHTML == join([i \in 1..Len(stockSymbols) |->
                             StockBox(Get(sd, stockSymbols[i]))])
    IN  IF Len(stockSymbols) = 0 THEN StockPlaceholder ELSE TickerMarkup(stockHTML)

\* new Date(published).toLocaleString('en-GB', {dateStyle: 'medium',
\* timeStyle: 'short'}), for a page whose time zone is UTC
FormatDate(published) ==
    CASE published = "2024-03-01T09:30:00Z" -> "1 Mar 2024, 09:30"
      [] published = "2024-03-02T16:05:00Z" -> "2 Mar 2024, 16:05"
      [] OTHER -> "Invalid Date"

\* {}: every field of it reads undefined
EmptyObject ==
    Obj([sentiment |-> Undefined, impact_score |-> Undefined,
         summary_th |-> Undefined, summary_en |-> Undefined])

\* the template literal of one card, its holes as parameters
NewsCardMarkup(source, published, publishedDate, title, summary, sentiment, impact_score, link) ==
    "\n        <div class=\"story-card\">"
    \o "\n            <header class=\"card-header\">"
    \o "\n                <span class=\"card-source\">" \o source \o "</span>"
    \o "\n                <time datetime=\"" \o published \o "\">" \o publishedDate \o "</time>"
    \o "\n            </header>"
    \o "\n            <h2 class=\"card-title\">" \o title \o "</h2>"
    \o "\n            <p class=\"card-summary\">" \o summary \o "</p>"
    \o "\n            <footer class=\"card-footer\">"
    \o "\n                <div class=\"sentiment-badge sentiment-" \o sentiment \o "\">" \o sentiment \o "</div>"
    \o "\n                <div class=\"impact-score\">Impact: " \o impact_score \o "/10</div>"
    \o "\n                <a href=\"" \o link \o "\" target=\"_blank\" rel=\"noopener noreferrer\" class=\"source-link\">Read Source →</a>"
    \o "\n            </footer>"
    \o "\n        </div>"
    \o "\n    "

\* a faulty variant of renderNewsCard: no fallback for sentiment and impact
renderNewsCardNoFallback(item) ==
    LET analysis == Or(item.analysis, EmptyObject)
        summary == Or(analysis.v.summary_th,
                      Or(analysis.v.summary_en, Str("Summary not available.")))
    IN  NewsCardMarkup(item.source, item.published, FormatDate(item.published),
                       item.title, TemplateStr(summary),
                       TemplateStr(analysis.v.sentiment),
                       TemplateStr(analysis.v.impact_score), item.link)

\* a faulty variant of renderNewsCard: the English summary comes first
renderNewsCardEnglishFirst(item) ==
    LET analysis == Or(item.analysis, EmptyObject)
        sentiment == Or(analysis.v.sentiment, Str("Neutral"))
        impact_score == Or(analysis.v.impact_score, Str("N/A"))
        summary == Or(analysis.v.summary_en,
                      Or(analysis.v.summary_th, Str("Summary not available.")))
    IN  NewsCardMarkup(item.source, item.published, FormatDate(item.published),
                       item.title, TemplateStr(summary), TemplateStr(sentiment),
                       TemplateStr(impact_score), item.link)

renderNewsCard(item) ==
    LET analysis == Or(item.analysis, EmptyObject)
        sentiment == Or(analysis.v.sentiment, Str("Neutral"))
        impact_score == Or(analysis.v.impact_score, Str("N/A"))
        summary == Or(analysis.v.summary_th,
                      Or(analysis.v.summary_en, Str("Summary not available.")))
    IN  NewsCardMarkup(item.source, item.published, FormatDate(item.published),
                       item.title, TemplateStr(summary), TemplateStr(sentiment),
                       TemplateStr(impact_score), item.link)

\* the innerHTML renderError gives the news container
renderError(message) ==
    "\n        <div class=\"error-screen\">"
    \o "\n            <h2>Something went wrong</h2>"
    \o "\n            <p>" \o message \o "</p>"
    \o "\n        </div>"
    \o "\n    "

NoNewsMessage ==
    "No news available at the moment. The worker might be processing data in the background."

\* newsData.length throws a TypeError on undefined
renderNewsFeedThrows(nd) == nd.t = "undefined"

\* a faulty variant of renderNewsFeed: an item seen before gets no card
renderNewsFeedDistinct(nd) ==
    IF Len(nd.v) = 0
    THEN renderError(NoNewsMessage)
    ELSE join([i \in 1..Len(nd.v) |->
                 IF \E j \in 1..(i - 1) : nd.v[j] = nd.v[i]
                 THEN ""
                 ELSE renderNewsCard(nd.v[i])])

\* the innerHTML renderNewsFeed gives the news container
renderNewsFeed(nd) ==
    IF Len(nd.v) = 0
    THEN renderError(NoNewsMessage)
    ELSE join([i \in 1..Len(nd.v) |-> renderNewsCard(nd.v[i])])

\* --------------------------------------------------------------- state
VARIABLES
    newsData,           \* let newsData
    stockData,          \* let stockData
    isAsking,           \* let isAsking
    stockBarContainer,  \* stockBarContainer.innerHTML
    newsContainer,      \* newsContainer.innerHTML
    qaInput,            \* qaInput.value, a sequence of characters
    qaButtonDisabled,   \* qaButton.disabled
    qaButtonText,       \* qaButton.textContent
    qaAnswerOpacity,    \* qaAnswerBox.style.opacity
    qaAnswerText,       \* qaAnswerBox.textContent
    loaded,             \* DOMContentLoaded has fired and initializeApp has run
    feedTasks,          \* suspended fetchMainFeed calls, in call order
    askTasks,           \* suspended handleAskQuestion calls, in call order
    feedCalls,          \* number of fetchMainFeed calls so far
    feedLast,           \* what the fetchMainFeed call that ended last received
    askCalls,           \* number of handleAskQuestion calls so far
    askAccepted,        \* ... of those that passed the guard of line 50
    askFinal,           \* number of runs of the finally block
    askLast,            \* what the handleAskQuestion call that ended last received
    renderCalls         \* number of renderAll calls made by the harness of RenderSpec

feedVars == <<newsData, stockData, stockBarContainer, newsContainer, feedTasks,
              feedCalls, feedLast>>
askVars == <<isAsking, qaInput, qaButtonDisabled, qaButtonText, qaAnswerOpacity,
             qaAnswerText, askTasks, askCalls, askAccepted, askFinal, askLast>>
vars == <<newsData, stockData, isAsking, stockBarContainer, newsContainer,
          qaInput, qaButtonDisabled, qaButtonText, qaAnswerOpacity, qaAnswerText,
          loaded, feedTasks, askTasks, feedCalls, feedLast, askCalls,
          askAccepted, askFinal, askLast, renderCalls>>

\* ------------------------------------------------- inputs of the model
\* what the user may have in the question input
InputValues ==
    { <<>>, <<" ", " ">>, <<"h", "i">>, <<" ", "h", "i", " ">> }

\* the JSON values /api/ask answers with
AskResults ==
    [status : {"success"}, answer : {Str("AAPL rose 2%."), Undefined},
     message : {Undefined}]
    \cup [status : {"error", "busy"}, answer : {Undefined},
          message : {Str("Model overloaded"), Undefined}]

ItemA ==
    [source |-> "Reuters", title |-> "Fed holds rates",
     link |-> "https://example.com/a", published |-> "2024-03-01T09:30:00Z",
     analysis |-> Obj([sentiment |-> Str("Positive"), impact_score |-> Num(7),
                       summary_th |-> Str("Sarup khao"), summary_en |-> Str("Summary")])]

ItemB ==
    [source |-> "Bloomberg", title |-> "Oil slips",
     link |-> "https://example.com/b", published |-> "2024-03-02T16:05:00Z",
     analysis |-> Undefined]

QuoteA == [symbol |-> "AAPL", price |-> 1500, change |-> 10, percent_change |-> 5]
QuoteG == [symbol |-> "GOOG", price |-> 1121, change |-> -3, percent_change |-> -1]

\* the news and stocks a feed response may carry; undefined is a missing field
FeedNews == { Arr(<<>>), Arr(<<ItemB, ItemA>>), Undefined }
FeedStocks ==
    { Obj(<<>>),
      Obj(<<[key |-> "AAPL", value |-> QuoteA], [key |-> "GOOG", value |-> QuoteG]>>),
      Undefined }

\* the JSON values /api/main_feed answers with
FeedResults ==
    [status : {"success"}, message : {Undefined},
     data : {Undefined} \cup {Obj([news |-> n, stocks |-> s]) : n \in FeedNews, s \in FeedStocks}]
    \cup [status : {"error"}, data : {Undefined},
          message : {Undefined, Str(""), Str("Database unavailable")}]

NoResult == [id |-> 0, outcome |-> "none", result |-> Undefined]

\* ----------------------------------------------------------------- Init
Init ==
    /\ newsData = Arr(<<>>)
    /\ stockData = Obj(<<>>)
    /\ isAsking = FALSE
    \* the five elements as the static markup leaves them
    /\ stockBarContainer = ""
    /\ newsContainer = ""
    /\ qaInput = <<>>
    /\ qaButtonDisabled = FALSE
    /\ qaButtonText = "Ask AI"
    /\ qaAnswerOpacity = ""
    /\ qaAnswerText = ""
    /\ loaded = FALSE
    /\ feedTasks = <<>>
    /\ askTasks = <<>>
    /\ feedCalls = 0
    /\ feedLast = NoResult
    /\ askCalls = 0
    /\ askAccepted = 0
    /\ askFinal = 0
    /\ askLast = NoResult
    /\ renderCalls = 0

\* ------------------------------------------------------- fetchMainFeed
ConnectMessage == "Could not connect to the server. Please try again later."

\* fetchMainFeed up to its first await: the request is sent
fetchMainFeed ==
    /\ feedCalls' = feedCalls + 1
    /\ feedTasks' = Append(feedTasks, [id |-> feedCalls + 1, stage |-> "fetch"])
    /\ UNCHANGED <<newsData, stockData, stockBarContainer, newsContainer, feedLast>>

\* a faulty variant of FeedCatch: the slots are cleared with the view
FeedCatchClears ==
    /\ newsContainer' = renderError(ConnectMessage)
    /\ newsData' = Arr(<<>>)
    /\ stockData' = Obj(<<>>)
    /\ UNCHANGED stockBarContainer

\* the catch block
FeedCatch ==
    /\ newsContainer' = renderError(ConnectMessage)
    /\ UNCHANGED <<newsData, stockData, stockBarContainer>>

\* a faulty variant of FeedReported: no default message
FeedReportedNoDefault(result) ==
    /\ newsContainer' = renderError(TemplateStr(result.message))
    /\ UNCHANGED <<newsData, stockData, stockBarContainer>>

\* the else branch: a status other than 'success'
FeedReported(result) ==
    /\ newsContainer' =
           renderError(TemplateStr(Or(result.message, Str("Failed to load data."))))
    /\ UNCHANGED <<newsData, stockData, stockBarContainer>>

\* a faulty variant of renderAll: the cards are added to the container
renderAllAppends ==
    /\ stockBarContainer' = renderStockBar(stockData')
    /\ newsContainer' = newsContainer \o renderNewsFeed(newsData')

\* renderAll on the slots just assigned; an exception of a renderer leaves
\* what ran before it and is caught by the catch block of fetchMainFeed
renderAll ==
    IF renderStockBarThrows(stockData')
    THEN /\ stockBarContainer' = stockBarContainer
         /\ newsContainer' = renderError(ConnectMessage)
    ELSE /\ stockBarContainer' = renderStockBar(stockData')
         /\ newsContainer' =
                IF renderNewsFeedThrows(newsData')
                THEN renderError(ConnectMessage)
                ELSE renderNewsFeed(newsData')

\* a faulty variant of FeedSuccess: the stocks slot keeps its old value
FeedSuccessNewsOnly(result) ==
    IF result.data.t = "undefined"
    THEN FeedCatch
    ELSE /\ newsData' = result.data.v.news
         /\ stockData' = stockData
         /\ renderAll

\* the then branch: result.data.news throws a TypeError when data is missing
FeedSuccess(result) ==
    IF result.data.t = "undefined"
    THEN FeedCatch
    ELSE /\ newsData' = result.data.v.news
         /\ stockData' = result.data.v.stocks
         /\ renderAll

\* await fetch('/api/main_feed') settles for the i-th suspended call
FeedFetchSettles(i, outcome) ==
    /\ i \in 1..Len(feedTasks)
    /\ feedTasks[i].stage = "fetch"
    /\ IF outcome = "ok"
       THEN /\ feedTasks' = [feedTasks EXCEPT ![i].stage = "json"]
            /\ UNCHANGED <<newsData, stockData, stockBarContainer, newsContainer,
                           feedLast>>
       ELSE \* fetch rejected, or response.ok is false and line 32 throws
            /\ FeedCatch
            /\ feedTasks' = Remove(feedTasks, i)
            /\ feedLast' = [id |-> feedTasks[i].id, outcome |-> outcome,
                            result |-> Undefined]
    /\ UNCHANGED <<feedCalls, loaded, renderCalls>>
    /\ UNCHANGED askVars

\* await response.json() rejects for the i-th suspended call
FeedJsonRejects(i) ==
    /\ i \in 1..Len(feedTasks)
    /\ feedTasks[i].stage = "json"
    /\ FeedCatch
    /\ feedTasks' = Remove(feedTasks, i)
    /\ feedLast' = [id |-> feedTasks[i].id, outcome |-> "notjson", result |-> Undefined]
    /\ UNCHANGED <<feedCalls, loaded, renderCalls>>
    /\ UNCHANGED askVars

\* a faulty variant of FeedJsonResolves: the response of a call made before
\* the call that ended last is dropped
FeedJsonResolvesKeepsNewest(i, result) ==
    /\ i \in 1..Len(feedTasks)
    /\ feedTasks[i].stage = "json"
    /\ IF feedTasks[i].id < feedLast.id
       THEN UNCHANGED <<newsData, stockData, stockBarContainer, newsContainer>>
       ELSE IF result.status = "success"
            THEN FeedSuccess(result)
            ELSE FeedReported(result)
    /\ feedTasks' = Remove(feedTasks, i)
    /\ feedLast' = [id |-> feedTasks[i].id, outcome |-> "json", result |-> result]
    /\ UNCHANGED <<feedCalls, loaded, renderCalls>>
    /\ UNCHANGED askVars

\* await response.json() resolves with result for the i-th suspended call
FeedJsonResolves(i, result) ==
    /\ i \in 1..Len(feedTasks)
    /\ feedTasks[i].stage = "json"
    /\ IF result.status = "success" THEN FeedSuccess(result) ELSE FeedReported(result)
    /\ feedTasks' = Remove(feedTasks, i)
    /\ feedLast' = [id |-> feedTasks[i].id, outcome |-> "json", result |-> result]
    /\ UNCHANGED <<feedCalls, loaded, renderCalls>>
    /\ UNCHANGED askVars

\* --------------------------------------------------- handleAskQuestion
\* a faulty variant of Rejected: the busy flag is not consulted
RejectedIgnoresBusy(question) == question = <<>>

\* if (!question || isAsking) return
Rejected(question) == question = <<>> \/ isAsking

\* a faulty variant of AskStart: the button is left enabled
AskStartKeepsButton(question) ==
    /\ isAsking' = TRUE
    /\ qaButtonText' = "Thinking..."
    /\ qaAnswerOpacity' = "0.5"
    /\ qaAnswerText' = "AI is processing your question..."
    /\ askTasks' = Append(askTasks, [id |-> askCalls + 1, stage |-> "fetch",
                                     question |-> question])
    /\ askAccepted' = askAccepted + 1
    /\ UNCHANGED <<qaButtonDisabled, qaInput, askFinal, askLast>>

\* lines 52-56, and the request of line 59 is sent
AskStart(question) ==
    /\ isAsking' = TRUE
    /\ qaButtonDisabled' = TRUE
    /\ qaButtonText' = "Thinking..."
    /\ qaAnswerOpacity' = "0.5"
    /\ qaAnswerText' = "AI is processing your question..."
    /\ askTasks' = Append(askTasks, [id |-> askCalls + 1, stage |-> "fetch",
                                     question |-> question])
    /\ askAccepted' = askAccepted + 1
    /\ UNCHANGED <<qaInput, askFinal, askLast>>

\* handleAskQuestion up to its return or its first await
handleAskQuestion ==
    /\ askCalls < MaxAskCalls
    /\ askCalls' = askCalls + 1
    /\ LET question == trim(qaInput)
       IN  IF Rejected(question)
           THEN UNCHANGED <<isAsking, qaInput, qaButtonDisabled, qaButtonText,
                            qaAnswerOpacity, qaAnswerText, askTasks, askAccepted,
                            askFinal, askLast>>
           ELSE AskStart(question)

\* the catch block
AskCatch == qaAnswerText' = "Sorry, an error occurred while asking the AI."

\* a faulty variant of AskResult: the status is not consulted
AskResultIgnoresStatus(result) == qaAnswerText' = DOMStr(result.answer)

\* lines 65-69
AskResult(result) ==
    IF result.status = "success"
    THEN qaAnswerText' = DOMStr(result.answer)
    ELSE qaAnswerText' = "Error: " \o TemplateStr(result.message)

\* a faulty variant of Finally: the busy flag and the button are not reset
FinallyKeepsBusy ==
    /\ UNCHANGED <<isAsking, qaButtonDisabled, qaButtonText>>
    /\ qaAnswerOpacity' = "1"
    /\ qaInput' = <<>>
    /\ askFinal' = askFinal + 1

\* the finally block
Finally ==
    /\ isAsking' = FALSE
    /\ qaButtonDisabled' = FALSE
    /\ qaButtonText' = "Ask AI"
    /\ qaAnswerOpacity' = "1"
    /\ qaInput' = <<>>
    /\ askFinal' = askFinal + 1

\* await fetch('/api/ask', ...) settles for the i-th suspended call
AskFetchSettles(i, outcome) ==
    /\ i \in 1..Len(askTasks)
    /\ askTasks[i].stage = "fetch"
    /\ IF outcome = "resolve"
       THEN /\ askTasks' = [askTasks EXCEPT ![i].stage = "json"]
            /\ UNCHANGED <<isAsking, qaInput, qaButtonDisabled, qaButtonText,
                           qaAnswerOpacity, qaAnswerText, askFinal, askLast>>
       ELSE /\ AskCatch
            /\ Finally
            /\ askTasks' = Remove(askTasks, i)
            /\ askLast' = [id |-> askTasks[i].id, outcome |-> "reject",
                           result |-> Undefined]
    /\ UNCHANGED <<askCalls, askAccepted, loaded, renderCalls>>
    /\ UNCHANGED feedVars

\* a faulty variant of AskJsonRejects: the failure is shown in the news area
AskJsonRejectsShowsErrorView(i) ==
    /\ i \in 1..Len(askTasks)
    /\ askTasks[i].stage = "json"
    /\ newsContainer' = renderError("Sorry, an error occurred while asking the AI.")
    /\ UNCHANGED qaAnswerText
    /\ Finally
    /\ askTasks' = Remove(askTasks, i)
    /\ askLast' = [id |-> askTasks[i].id, outcome |-> "notjson", result |-> Undefined]
    /\ UNCHANGED <<askCalls, askAccepted, loaded, renderCalls>>
    /\ UNCHANGED <<newsData, stockData, stockBarContainer, feedTasks, feedCalls,
                   feedLast>>

\* await response.json() rejects for the i-th suspended call
AskJsonRejects(i) ==
    /\ i \in 1..Len(askTasks)
    /\ askTasks[i].stage = "json"
    /\ AskCatch
    /\ Finally
    /\ askTasks' = Remove(askTasks, i)
    /\ askLast' = [id |-> askTasks[i].id, outcome |-> "notjson", result |-> Undefined]
    /\ UNCHANGED <<askCalls, askAccepted, loaded, renderCalls>>
    /\ UNCHANGED feedVars

\* await response.json() resolves with result for the i-th suspended call
AskJsonResolves(i, result) ==
    /\ i \in 1..Len(askTasks)
    /\ askTasks[i].stage = "json"
    /\ AskResult(result)
    /\ Finally
    /\ askTasks' = Remove(askTasks, i)
    /\ askLast' = [id |-> askTasks[i].id, outcome |-> "json", result |-> result]
    /\ UNCHANGED <<askCalls, askAccepted, loaded, renderCalls>>
    /\ UNCHANGED feedVars

\* ------------------------------------------------------ the page's events
\* DOMContentLoaded: initializeApp calls fetchMainFeed and registers the
\* keyup listener
initializeApp ==
    /\ ~loaded
    /\ loaded' = TRUE
    /\ fetchMainFeed
    /\ UNCHANGED renderCalls
    /\ UNCHANGED askVars

\* a faulty variant of KeyUpEnter: Enter also reloads the feed
KeyUpEnterReloads ==
    /\ loaded
    /\ handleAskQuestion
    /\ fetchMainFeed
    /\ UNCHANGED <<loaded, renderCalls>>

\* keyup with event.key === 'Enter'
KeyUpEnter ==
    /\ loaded
    /\ handleAskQuestion
    /\ UNCHANGED <<loaded, renderCalls>>
    /\ UNCHANGED feedVars

\* keyup with any other key, after the key has edited the input to value:
\* the listener does nothing
KeyUpOther(value) ==
    /\ loaded
    /\ value # qaInput
    /\ qaInput' = value
    /\ UNCHANGED <<isAsking, qaButtonDisabled, qaButtonText, qaAnswerOpacity,
                   qaAnswerText, askTasks, askCalls, askAccepted, askFinal, askLast>>
    /\ UNCHANGED <<loaded, renderCalls>>
    /\ UNCHANGED feedVars

\* a click on the ask control
ClickAsk ==
    /\ loaded
    /\ handleAskQuestion
    /\ UNCHANGED <<loaded, renderCalls>>
    /\ UNCHANGED feedVars

\* the network settles an await of a suspended fetchMainFeed call
FeedNetwork ==
    \/ \E i \in 1..MaxFeedCalls, outcome \in {"ok", "notok", "reject"} :
           FeedFetchSettles(i, outcome)
    \/ \E i \in 1..MaxFeedCalls : FeedJsonRejects(i)
    \/ \E i \in 1..MaxFeedCalls, result \in FeedResults : FeedJsonResolves(i, result)

\* the network settles an await of a suspended handleAskQuestion call
AskNetwork ==
    \/ \E i \in 1..MaxAskCalls, outcome \in {"resolve", "reject"} :
           AskFetchSettles(i, outcome)
    \/ \E i \in 1..MaxAskCalls : AskJsonRejects(i)
    \/ \E i \in 1..MaxAskCalls, result \in AskResults : AskJsonResolves(i, result)

Next ==
    \/ initializeApp
    \/ KeyUpEnter
    \/ \E value \in InputValues : KeyUpOther(value)
    \/ ClickAsk
    \/ FeedNetwork
    \/ AskNetwork

Spec == Init /\ [][Next]_vars

\* ------------------------------------------ a harness around fetchMainFeed
\* any caller of fetchMainFeed, as often as the bound allows
CallFetchMainFeed ==
    /\ feedCalls < MaxFeedCalls
    /\ fetchMainFeed
    /\ UNCHANGED <<loaded, renderCalls>>
    /\ UNCHANGED askVars

NextFeed ==
    \/ CallFetchMainFeed
    \/ FeedNetwork

FeedSpec == Init /\ [][NextFeed]_vars

\* ------------------------------------------- renderStockBar on its own
TickerSymbols == {"AAPL", "GOOG", "MSFT"}

\* quotes of one symbol: a fall, no change and a rise, the percent change
\* of either sign whatever the change
TickerQuotes(symbol) ==
    [symbol : {symbol}, price : {1500}, change : {-3, 0, 10},
     percent_change : {-1, 0, 5}]

RECURSIVE TickerEntries(_)
\* the entry sequences of exactly n entries, keys unique
TickerEntries(n) ==
    IF n = 0
    THEN { <<>> }
    ELSE UNION { { Append(m, [key |-> y, value |-> q]) : q \in TickerQuotes(y) }
                 : <<m, y>> \in { <<m, y>> \in TickerEntries(n - 1) \X TickerSymbols :
                                    \A i \in 1..Len(m) : m[i].key # y } }

\* the stock mappings of at most MaxStocks entries
TickerMaps == { Obj(m) : m \in UNION { TickerEntries(n) : n \in 0..MaxStocks } }

TickerInit ==
    /\ stockData \in TickerMaps
    /\ newsData = Arr(<<>>)
    /\ isAsking = FALSE
    /\ stockBarContainer = ""
    /\ newsContainer = ""
    /\ qaInput = <<>>
    /\ qaButtonDisabled = FALSE
    /\ qaButtonText = "Ask AI"
    /\ qaAnswerOpacity = ""
    /\ qaAnswerText = ""
    /\ loaded = FALSE
    /\ feedTasks = <<>>
    /\ askTasks = <<>>
    /\ feedCalls = 0
    /\ feedLast = NoResult
    /\ askCalls = 0
    /\ askAccepted = 0
    /\ askFinal = 0
    /\ askLast = NoResult
    /\ renderCalls = 0

\* a call of renderStockBar
CallRenderStockBar ==
    /\ ~renderStockBarThrows(stockData)
    /\ stockBarContainer' = renderStockBar(stockData)
    /\ UNCHANGED <<newsData, stockData, newsContainer, feedTasks, feedCalls,
                   feedLast, loaded, renderCalls>>
    /\ UNCHANGED askVars

TickerSpec == TickerInit /\ [][CallRenderStockBar]_vars

\* ------------------------------------------------ renderAll on its own
\* the analysis objects of the rendered items: every combination of the two
\* summaries (missing, empty, given), and every combination of sentiment and
\* impact score (missing, given, a score of 0)
RenderAnalyses ==
    { Obj(o) : o \in
        [sentiment : {Str("Positive")}, impact_score : {Num(7)},
         summary_th : {Undefined, Str(""), Str("Sarup khao")},
         summary_en : {Undefined, Str("Summary")}]
        \cup [sentiment : {Undefined, Str("Negative")},
              impact_score : {Undefined, Num(0), Num(7)},
              summary_th : {Str("Sarup khao")}, summary_en : {Undefined}] }

\* the news items: one without analysis, one for each analysis object
RenderItems ==
    [source : {"Reuters"}, title : {"Fed holds rates"},
     link : {"https://example.com/a"}, published : {"2024-03-01T09:30:00Z"},
     analysis : {Undefined} \cup RenderAnalyses]

\* the news lists of at most MaxNews items, repeated items included
RenderNews == { Arr(l) : l \in UNION { [1..n -> RenderItems] : n \in 0..MaxNews } }

RenderInit ==
    /\ newsData \in RenderNews
    /\ stockData \in { sd \in FeedStocks : sd.t = "object" }
    /\ isAsking = FALSE
    /\ stockBarContainer = ""
    /\ newsContainer = ""
    /\ qaInput = <<>>
    /\ qaButtonDisabled = FALSE
    /\ qaButtonText = "Ask AI"
    /\ qaAnswerOpacity = ""
    /\ qaAnswerText = ""
    /\ loaded = FALSE
    /\ feedTasks = <<>>
    /\ askTasks = <<>>
    /\ feedCalls = 0
    /\ feedLast = NoResult
    /\ askCalls = 0
    /\ askAccepted = 0
    /\ askFinal = 0
    /\ askLast = NoResult
    /\ renderCalls = 0

\* a call of renderAll on the slots as they are
CallRenderAll ==
    /\ renderCalls < MaxRenders
    /\ renderCalls' = renderCalls + 1
    /\ UNCHANGED <<newsData, stockData>>
    /\ renderAll
    /\ UNCHANGED <<feedTasks, feedCalls, feedLast, loaded>>
    /\ UNCHANGED askVars

RenderSpec == RenderInit /\ [][CallRenderAll]_vars

\* ------------------------------------------------------------- claims
\* what handleAskQuestion may write, the history counter askCalls apart
askEffects == <<isAsking, qaInput, qaButtonDisabled, qaButtonText, qaAnswerOpacity,
                qaAnswerText, askTasks, askAccepted, askFinal, askLast>>

ProcessingText == "AI is processing your question..."

\* C1: at most one /api/ask request is in flight at any time, and a call of
\* handleAskQuestion made while isAsking is true sends no request and changes
\* no state, so the one outstanding request alone decides the answer box.
C1_SingleFlight ==
    /\ [](Len(askTasks) <= 1)
    /\ [][(askCalls' # askCalls /\ isAsking)
            => /\ UNCHANGED askEffects
               /\ UNCHANGED feedVars]_vars
    /\ [][Len(askTasks') < Len(askTasks)
            => /\ Len(askTasks) = 1
               /\ askLast'.id = askTasks[1].id]_vars

\* the first call was accepted and is still outstanding when a second call
\* is made with a question in the input
C1_Witness ==
    /\ Len(askTasks) = 1
    /\ askTasks[1].id = 1
    /\ askCalls = 2
    /\ askFinal = 0
    /\ trim(qaInput) # <<>>

\* C2: every accepted call whose request settles runs the finalization exactly
\* once, on each exit path; after it isAsking is false, the button is enabled
\* and labelled 'Ask AI', the answer box has opacity 1 and no longer shows the
\* processing placeholder, and the input is empty.
C2_FinalizedOnce ==
    /\ [](askAccepted = askFinal + Len(askTasks))
    /\ [][Len(askTasks') < Len(askTasks)
            => /\ askFinal' = askFinal + 1
               /\ isAsking' = FALSE
               /\ qaButtonDisabled' = FALSE
               /\ qaButtonText' = "Ask AI"
               /\ qaAnswerOpacity' = "1"
               /\ qaInput' = <<>>
               /\ qaAnswerText' # ProcessingText]_vars
    /\ []((askTasks = <<>> /\ askAccepted > 0)
            => /\ isAsking = FALSE
               /\ qaButtonDisabled = FALSE
               /\ qaButtonText = "Ask AI"
               /\ qaAnswerOpacity = "1"
               /\ qaAnswerText # ProcessingText)

\* two calls were accepted and both have ended, the second by an exception
C2_Witness ==
    /\ askFinal = 2
    /\ askTasks = <<>>
    /\ askLast.outcome \in {"reject", "notjson"}

\* an input of no characters or of white space only
IsBlank(s) == \A i \in 1..Len(s) : s[i] = " "

\* C3: handleAskQuestion called with an empty or whitespace-only input is a
\* no-op in every state: no request, and isAsking, the button, the answer box
\* and the input are unchanged.
C3_BlankIsNoOp ==
    [][(askCalls' # askCalls /\ IsBlank(qaInput))
         => /\ UNCHANGED askEffects
            /\ UNCHANGED feedVars]_vars

\* one call has been made, on a whitespace-only input, and nothing was sent
C3_Witness ==
    /\ askCalls = 1
    /\ askAccepted = 0
    /\ qaInput = <<" ", " ">>
    /\ askTasks = <<>>
    /\ qaButtonText = "Ask AI"

\* C4: the final answer-box text of an accepted question is decided by its
\* response alone: the answer on status 'success', 'Error: ' and the message
\* on any other status, the generic text when fetch or json() throws.
C4_AnswerFromResponse ==
    (askTasks = <<>> /\ askLast.outcome # "none")
        => /\ askLast.outcome \in {"reject", "notjson"}
               => qaAnswerText = "Sorry, an error occurred while asking the AI."
           /\ (/\ askLast.outcome = "json"
               /\ askLast.result.status = "success"
               /\ askLast.result.answer.t = "string")
               => qaAnswerText = askLast.result.answer.v
           /\ (/\ askLast.outcome = "json"
               /\ askLast.result.status # "success"
               /\ askLast.result.message.t = "string")
               => qaAnswerText = "Error: " \o askLast.result.message.v

\* a reported failure has been shown, after a further attempt to ask and
\* after the feed response
C4_Witness ==
    /\ askTasks = <<>>
    /\ askLast.id = 1
    /\ askLast.outcome = "json"
    /\ askLast.result.status = "busy"
    /\ askLast.result.message.t = "string"
    /\ askCalls = 2
    /\ askAccepted = 1
    /\ feedLast.outcome = "json"

\* a fetchMainFeed call ends in this step
FeedCallEnds == feedLast' # feedLast

\* C5: when the feed request fails at transport level (response.ok false, or
\* fetch rejecting), the error view shows the generic connectivity message and
\* newsData and stockData keep the values they had.
C5_TransportFailureKeepsData ==
    [][(FeedCallEnds /\ feedLast'.outcome \in {"notok", "reject"})
         => /\ newsContainer' =
                  renderError("Could not connect to the server. Please try again later.")
            /\ newsData' = newsData
            /\ stockData' = stockData]_vars

\* a second call has failed at transport level after a first one filled both
\* slots, which still hold that data under the error view
C5_Witness ==
    /\ feedLast.id = 2
    /\ feedLast.outcome = "notok"
    /\ newsData = Arr(<<ItemB, ItemA>>)
    /\ stockData.t = "object"
    /\ Len(stockData.v) = 2
    /\ newsContainer = renderError(ConnectMessage)

\* the step ends a call whose response parsed with a status other than success
FeedReportedEnds ==
    /\ FeedCallEnds
    /\ feedLast'.outcome = "json"
    /\ feedLast'.result.status # "success"

\* C6 as stated: on a parsed response whose status is not 'success', the error
\* view shows the response's message if present and 'Failed to load data.'
\* otherwise; the renderers do not run and both slots are unchanged.
C6_MessageIfPresent ==
    [][FeedReportedEnds
         => /\ newsContainer' =
                  renderError(IF feedLast'.result.message.t = "undefined"
                              THEN "Failed to load data."
                              ELSE feedLast'.result.message.v)
            /\ UNCHANGED <<newsData, stockData, stockBarContainer>>]_vars

\* C6 as amended: the error view shows the response's message if it is present
\* and not the empty string, and 'Failed to load data.' otherwise; the
\* renderers do not run and both slots are unchanged.
C6_MessageIfNonEmpty ==
    [][FeedReportedEnds
         => /\ newsContainer' =
                  renderError(IF feedLast'.result.message.t = "undefined"
                                   \/ feedLast'.result.message.v = ""
                              THEN "Failed to load data."
                              ELSE feedLast'.result.message.v)
            /\ UNCHANGED <<newsData, stockData, stockBarContainer>>]_vars

\* a second call has ended on a reported failure whose message is the empty
\* string and shows the default text, after a first one filled both slots
C6_Witness ==
    /\ feedLast.id = 2
    /\ feedLast.outcome = "json"
    /\ feedLast.result.status = "error"
    /\ feedLast.result.message = Str("")
    /\ newsContainer = renderError("Failed to load data.")
    /\ newsData = Arr(<<ItemB, ItemA>>)
    /\ stockData.t = "object"
    /\ Len(stockData.v) = 2

\* the step ends a call whose response parsed with status success and a data
\* object
FeedSuccessEnds ==
    /\ FeedCallEnds
    /\ feedLast'.outcome = "json"
    /\ feedLast'.result.status = "success"
    /\ feedLast'.result.data.t = "object"

\* C7: on a response with status 'success', both slots are replaced together
\* (newsData becomes data.news and stockData becomes data.stocks, nothing of
\* the old values kept, no step changes one slot alone), and the ticker and
\* the news feed are then rendered from the new values.  The renderers are
\* checked on the responses that carry a news list and a stocks mapping.
C7_SlotsReplacedTogether ==
    /\ [][FeedSuccessEnds
            => /\ newsData' = feedLast'.result.data.v.news
               /\ stockData' = feedLast'.result.data.v.stocks
               /\ (newsData'.t = "array" /\ stockData'.t = "object")
                    => /\ stockBarContainer' = renderStockBar(stockData')
                       /\ newsContainer' = renderNewsFeed(newsData')]_vars
    /\ [][(newsData' # newsData \/ stockData' # stockData) => FeedSuccessEnds]_vars

\* a second successful response has replaced two filled slots by a news list
\* and an empty stocks mapping
C7_Witness ==
    /\ feedLast.id = 2
    /\ feedCalls = 2
    /\ feedLast.outcome = "json"
    /\ feedLast.result.status = "success"
    /\ newsData = Arr(<<ItemB, ItemA>>)
    /\ stockData = Obj(<<>>)
    /\ stockBarContainer = StockPlaceholder
    /\ newsContainer = renderNewsFeed(newsData)

\* the messages the error view is given
ErrorMessages ==
    {ConnectMessage, NoNewsMessage, "Failed to load data.", "Database unavailable",
     "", "undefined"}

\* the markup is the error screen: the fragment renderError produces
IsErrorScreen(html) == \E m \in ErrorMessages : html = renderError(m)

\* C8: when the feed succeeds with an empty news list and a non-empty stocks
\* mapping, the ticker is rendered from stocks and the news area shows the
\* 'no news available' view, which is not an error screen.
C8_NoNewsIsNotAnErrorScreen ==
    (/\ feedTasks = <<>>
     /\ feedLast.outcome = "json"
     /\ feedLast.result.status = "success"
     /\ feedLast.result.data.t = "object"
     /\ feedLast.result.data.v.news = Arr(<<>>)
     /\ feedLast.result.data.v.stocks.t = "object"
     /\ Len(feedLast.result.data.v.stocks.v) > 0)
        => /\ stockBarContainer = renderStockBar(feedLast.result.data.v.stocks)
           /\ ~IsErrorScreen(newsContainer)

\* the quote box the claim describes: '+' before the change and the percent
\* change and class positive when change >= 0, class negative and nothing
\* added when change < 0
ClaimedStockBox(q) ==
    IF q.change >= 0
    THEN StockBoxMarkup(q.symbol, toFixed2(q.price), "positive",
                        "+" \o toFixed2(q.change), "+" \o toFixed2(q.percent_change))
    ELSE StockBoxMarkup(q.symbol, toFixed2(q.price), "negative",
                        toFixed2(q.change), toFixed2(q.percent_change))

\* C9: every quote of the rendered ticker has class 'positive' and a '+'
\* before both the change and the percent change exactly when change >= 0
\* (zero included), and class 'negative' with no prefix when change < 0; the
\* sign of percent_change decides nothing.
C9_SignFollowsChange ==
    (stockBarContainer # "" /\ Len(stockData.v) > 0)
        => LET boxes == join([i \in 1..Len(stockData.v) |->
                                ClaimedStockBox(stockData.v[i].value)])
           IN  stockBarContainer =
                   "<div class=\"stock-ticker-inner\">" \o boxes \o boxes \o "</div>"

\* a rendered ticker with a quote of change 0 and falling percent change
\* and a quote of negative change and rising percent change
C9_Witness ==
    /\ stockBarContainer # ""
    /\ Len(stockData.v) = 2
    /\ stockData.v[1].value.change = 0
    /\ stockData.v[1].value.percent_change < 0
    /\ stockData.v[2].value.change < 0
    /\ stockData.v[2].value.percent_change > 0

\* C10: the ticker fragment holds the concatenated quote sequence, in key
\* order, exactly twice, back to back; the empty mapping yields the single
\* 'Fetching stock data...' placeholder.
C10_TickerTwice ==
    stockBarContainer # ""
        => LET quotes == join([i \in 1..Len(stockData.v) |->
                                 StockBox(stockData.v[i].value)])
           IN  IF Len(stockData.v) = 0
               THEN stockBarContainer =
                        "<div class=\"stock-box\">Fetching stock data...</div>"
               ELSE /\ stockBarContainer =
                          "<div class=\"stock-ticker-inner\">" \o quotes \o quotes
                              \o "</div>"
                    /\ stockBarContainer #
                          "<div class=\"stock-ticker-inner\">" \o quotes \o "</div>"

\* a rendered ticker of two quotes
C10_Witness ==
    /\ Len(stockData.v) = 2
    /\ stockData.v[1].key = "GOOG"
    /\ stockData.v[2].key = "AAPL"
    /\ stockBarContainer = TickerMarkup(StockBox(stockData.v[1].value)
                                         \o StockBox(stockData.v[2].value))

\* renderAll has run on the slots of RenderSpec
Rendered == renderCalls > 0

\* the card of an item as the model renders it, but for the items without an
\* analysis object, whose card is the one C11 describes
C11_Card(item) ==
    IF item.analysis.t = "undefined"
    THEN NewsCardMarkup(item.source, item.published, FormatDate(item.published),
                        item.title, "Summary not available.", "Neutral", "N/A",
                        item.link)
    ELSE renderNewsCard(item)

\* C11: every news item without an analysis object is rendered as a card
\* with sentiment 'Neutral', impact 'N/A' and the summary 'Summary not
\* available.'.
C11_NoAnalysisDefaults ==
    (Rendered /\ Len(newsData.v) > 0)
        => newsContainer = join([i \in 1..Len(newsData.v) |-> C11_Card(newsData.v[i])])

\* a rendered list of an item without analysis after an analysed one
C11_Witness ==
    /\ Rendered
    /\ Len(newsData.v) = 2
    /\ newsData.v[1].analysis.t = "object"
    /\ newsData.v[2].analysis.t = "undefined"
    /\ newsContainer # ""

\* the summary C12 describes: the first non-empty of summary_th, summary_en
\* and the literal
C12_Summary(a) ==
    IF a.summary_th.t = "string" /\ a.summary_th.v # ""
    THEN a.summary_th.v
    ELSE IF a.summary_en.t = "string" /\ a.summary_en.v # ""
         THEN a.summary_en.v
         ELSE "Summary not available."

\* the card of an item as the model renders it, but for the analysed items
\* that carry a sentiment and a non-zero score, whose summary is C12's
C12_Card(item) ==
    IF /\ item.analysis.t = "object"
       /\ item.analysis.v.sentiment.t = "string"
       /\ item.analysis.v.impact_score.t = "number"
       /\ item.analysis.v.impact_score.v # 0
    THEN NewsCardMarkup(item.source, item.published, FormatDate(item.published),
                        item.title, C12_Summary(item.analysis.v),
                        item.analysis.v.sentiment.v,
                        IntStr(item.analysis.v.impact_score.v), item.link)
    ELSE renderNewsCard(item)

\* C12: the summary shown is the first non-empty of summary_th, summary_en
\* and 'Summary not available.': a non-empty summary_th is shown whether or
\* not summary_en is present, summary_en only when summary_th is absent or
\* empty.
C12_ThaiSummaryFirst ==
    (Rendered /\ Len(newsData.v) > 0)
        => newsContainer = join([i \in 1..Len(newsData.v) |-> C12_Card(newsData.v[i])])

\* a rendered list of an item with both summaries and an item whose Thai
\* summary is empty and whose English summary is given
C12_Witness ==
    /\ Rendered
    /\ Len(newsData.v) = 2
    /\ newsData.v[1].analysis.t = "object"
    /\ newsData.v[1].analysis.v.summary_th = Str("Sarup khao")
    /\ newsData.v[1].analysis.v.summary_en = Str("Summary")
    /\ newsData.v[2].analysis.t = "object"
    /\ newsData.v[2].analysis.v.summary_th = Str("")
    /\ newsData.v[2].analysis.v.summary_en = Str("Summary")

\* a call of renderAll is made in this step
RenderAllCalled == renderCalls' = renderCalls + 1

\* C13: rendering is idempotent: a call of renderAll on slots that were
\* already rendered leaves both containers as they are, and no call changes
\* a slot.
C13_RenderIdempotent ==
    /\ [][(RenderAllCalled /\ Rendered)
            => UNCHANGED <<stockBarContainer, newsContainer>>]_vars
    /\ [][RenderAllCalled => UNCHANGED <<newsData, stockData>>]_vars

\* renderAll has run twice on a list of two items and a filled stock mapping
C13_Witness ==
    /\ renderCalls = 2
    /\ Len(newsData.v) = 2
    /\ Len(stockData.v) = 2
    /\ newsContainer = renderNewsFeed(newsData)
    /\ stockBarContainer = renderStockBar(stockData)

\* C14: for a non-empty news list the feed is one card per item, in the
\* order of the list, none dropped or merged: a repeated item has a card for
\* each occurrence.
C14_OneCardPerItem ==
    (Rendered /\ Len(newsData.v) > 0)
        => LET card == [i \in 1..Len(newsData.v) |-> renderNewsCard(newsData.v[i])]
           IN  /\ Len(newsData.v) = 1 => newsContainer = card[1]
               /\ Len(newsData.v) = 2 => newsContainer = card[1] \o card[2]
               /\ Len(newsData.v) >= 3
                    => newsContainer =
                         card[1] \o card[2] \o join(SubSeq(card, 3, Len(card)))

\* a rendered list that holds the same item twice
C14_Witness ==
    /\ Rendered
    /\ Len(newsData.v) = 2
    /\ newsData.v[1] = newsData.v[2]
    /\ newsContainer = renderNewsCard(newsData.v[1]) \o renderNewsCard(newsData.v[1])

\* C15: the feed request is sent exactly once, at startup: the only step
\* that sends it is the one that loads the page, and no key, click, question
\* response or feed response sends a second one, also after the first failed.
C15_FeedRequestedOnce ==
    /\ [](feedCalls <= 1)
    /\ [](loaded => feedCalls = 1)
    /\ [][feedCalls' # feedCalls
            => (~loaded /\ loaded' /\ feedCalls' = 1 /\ Len(feedTasks') = 1)]_vars

\* the one feed request has failed and questions were asked and answered
\* after it, with no further feed request
C15_Witness ==
    /\ loaded
    /\ feedCalls = 1
    /\ feedTasks = <<>>
    /\ feedLast.outcome \in {"notok", "reject", "notjson"}
    /\ askCalls >= 2
    /\ askFinal >= 1
    /\ qaInput # <<>>

\* a step of handleAskQuestion: a call of it, or one of its awaits settling
AskStep == askCalls' # askCalls \/ askTasks' # askTasks

\* a step of fetchMainFeed and of the renderers it calls
FeedStep == feedCalls' # feedCalls \/ feedTasks' # feedTasks

\* C16: each shared variable has a single writer: no step of handleAskQuestion
\* changes newsData, stockData or the two containers, and no step of
\* fetchMainFeed or of the renderers changes isAsking, the button, the input
\* or the answer box, however the feed response interleaves with a question.
C16_SingleWriter ==
    /\ [][AskStep => UNCHANGED <<newsData, stockData, stockBarContainer,
                                 newsContainer>>]_vars
    /\ [][FeedStep => UNCHANGED <<isAsking, qaButtonDisabled, qaButtonText, qaInput,
                                  qaAnswerOpacity, qaAnswerText>>]_vars

\* the feed has been rendered while the second question is outstanding and
\* the first one is answered
C16_Witness ==
    /\ Len(askTasks) = 1
    /\ askFinal >= 1
    /\ isAsking
    /\ feedTasks = <<>>
    /\ feedLast.outcome = "json"
    /\ newsData = Arr(<<ItemB, ItemA>>)
    /\ stockData.t = "object"
    /\ Len(stockData.v) = 2
    /\ newsContainer = renderNewsFeed(newsData)

\* C17: fetchMainFeed has no in-flight guard: every invocation sends a
\* request, also while another is outstanding, and the slots hold the data of
\* the successful response processed last: a response with status 'success'
\* and data sets both slots whatever the order of the requests, and the end
\* of any other call leaves them.
C17_LastResponseWins ==
    /\ [][feedCalls' = feedCalls + 1
            => /\ Len(feedTasks') = Len(feedTasks) + 1
               /\ feedTasks'[Len(feedTasks')].stage = "fetch"]_vars
    /\ [][FeedCallEnds
            => IF FeedSuccessEnds
               THEN /\ newsData' = feedLast'.result.data.v.news
                    /\ stockData' = feedLast'.result.data.v.stocks
               ELSE UNCHANGED <<newsData, stockData>>]_vars

\* two calls overlapped and the response of the first was processed after the
\* second call had ended: the slots hold the data of the first
C17_Witness ==
    /\ feedCalls >= 2
    /\ feedTasks = <<>>
    /\ feedLast.id = 1
    /\ feedLast.outcome = "json"
    /\ feedLast.result.status = "success"
    /\ feedLast.result.data.t = "object"
    /\ feedLast.result.data.v.news = Arr(<<ItemB, ItemA>>)
    /\ feedLast.result.data.v.stocks = Obj(<<>>)
    /\ newsData = Arr(<<ItemB, ItemA>>)
    /\ stockData = Obj(<<>>)

\* C18: between handlers the busy UI agrees with the busy flag: the button is
\* disabled, labelled 'Thinking...' and the answer box dimmed exactly when
\* isAsking is true, and isAsking is true exactly when one /api/ask request
\* is outstanding.
C18_BusyUIAgrees ==
    /\ isAsking <=> qaButtonDisabled
    /\ isAsking <=> (qaButtonText = "Thinking...")
    /\ isAsking <=> (qaAnswerOpacity = "0.5")
    /\ isAsking <=> (Len(askTasks) = 1)
    /\ Len(askTasks) <= 1

\* a second question is outstanding, its response received but not yet
\* parsed, after the first one was finalized
C18_Witness ==
    /\ isAsking
    /\ Len(askTasks) = 1
    /\ askTasks[1].stage = "json"
    /\ askFinal >= 1
    /\ qaButtonDisabled
    /\ qaAnswerOpacity = "0.5"

\* C19: whenever a fetchMainFeed call ends by showing the generic 'Could not
\* connect to the server...' view, newsData and stockData equal their values
\* before that call ended, whichever way the catch block was reached.
C19_CatchKeepsSlots ==
    [][(FeedCallEnds /\ newsContainer' = renderError(ConnectMessage))
         => UNCHANGED <<newsData, stockData>>]_vars

\* the card C20 describes: the sentiment and the numeric impact score of the
\* analysis are shown whenever the field is there, the fallback otherwise
C20_Card(item) ==
    LET analysis == Or(item.analysis, EmptyObject)
        summary == Or(analysis.v.summary_th,
                      Or(analysis.v.summary_en, Str("Summary not available.")))
    IN  NewsCardMarkup(item.source, item.published, FormatDate(item.published),
                       item.title, TemplateStr(summary),
                       IF analysis.v.sentiment.t = "undefined"
                       THEN "Neutral"
                       ELSE TemplateStr(analysis.v.sentiment),
                       IF analysis.v.impact_score.t = "number"
                       THEN IntStr(analysis.v.impact_score.v)
                       ELSE "N/A",
                       item.link)

\* C20: the fallbacks are used only for absent fields: a sentiment or a
\* numeric impact score (0 included) carried by the analysis is the value the
\* card shows, and 'Neutral' or 'N/A' appears only when the field is missing.
C20_FallbackOnlyWhenMissing ==
    (Rendered /\ Len(newsData.v) > 0)
        => newsContainer = join([i \in 1..Len(newsData.v) |-> C20_Card(newsData.v[i])])

====
